---------------------------- MODULE Spec2Model ----------------------------
(***************************************************************************)
(* A model of ai_terminal.py: the PTY relay loop of main, the synchronous  *)
(* executor execute, the transcript parser parse_terminal_output, the      *)
(* classifier is_ai_command, the bounded history add_to_history and the    *)
(* assistant bridge handle_ai_query.                                       *)
(*                                                                         *)
(* Text is a sequence of one-character strings; the characters with no     *)
(* printable form are the tokens "ESC" (0x1B), "BEL" (0x07), "CR", "LF".   *)
(* Bytes are the same, plus the lead byte "E2" and the continuation bytes   *)
(* "82" and "AC" of UTF-8: "E2" and two continuation bytes encode one      *)
(* character ("E2" "82" "AC" is the euro sign, "EUR").  Python's None is   *)
(* the token "None", a Python tuple is a TLA+ tuple, a dict is a record.   *)
(*                                                                         *)
(* Spec is main with everything it calls.  SpecProcess is the process     *)
(* from the loading of the module on: the credential check, pty.fork, main *)
(* and the signals.  SpecHistory, SpecClassify, SpecParse and SpecExecute  *)
(* apply add_to_history, is_ai_command, parse_terminal_output and execute  *)
(* to inputs main's environment does not produce within the bounds.  The   *)
(* diagnostics written with print() are left out; stdout_written holds     *)
(* what os.write sends to the real terminal.                               *)
(***************************************************************************)
EXTENDS Integers, Sequences, FiniteSets, TLC

(***************************************************************************)
(* Bounds of the model.                                                    *)
(***************************************************************************)
\* reads of the relay loop (user input and PTY output together) in one run
MaxReads == 3
\* lines read by conversation mode in one run
MaxConvTurns == 2
\* add_to_history calls beyond the capacity in the history specification
MaxOverflow == 3
\* length of the command strings the classifier is applied to
MaxCmdLen == 4
\* chunks of one reply of the shell in the specification of execute
MaxChunks == 2

\* ai_terminal.py:15
MAX_HISTORY_SIZE == 100

(***************************************************************************)
(* Characters and Python's str methods.                                    *)
(***************************************************************************)
\* str.strip / str.split / \s: the whitespace of the alphabet
IsSpace(c) == c \in {" ", "CR", "LF"}

Lower ==
    {"a", "c", "d", "e", "f", "h", "i", "l", "m", "n", "o", "p", "r", "s",
     "t", "w", "x"}

Upper == {"A", "E", "I", "T", "W", "X"}

Digit == {"1", "2"}

\* \w: letters, digits and the underscore
IsWord(c) == c \in Lower \cup Upper \cup Digit \cup {"_", "U+2082"}

\* [\x00-\x1F\x7F-\x9F\r\n\x07>] of clean_terminal_output
IsControl(c) == c \in {"ESC", "BEL", "CR", "LF", ">"}

\* [@-Z\\-_] of the escape grammar: the byte after ESC of a short escape
IsAnsiShort(c) == c \in Upper \cup {"]", "_"}

\* [0-?]: the parameter bytes of a CSI sequence
IsCsiParam(c) == c \in Digit \cup {";", ">", "?"}

\* [ -/]: the intermediate bytes of a CSI sequence
IsCsiInter(c) == c \in {" ", "!", "$", "%", "'", "/"}

\* [@-~]: the final byte of a CSI sequence
IsCsiFinal(c) == c \in Lower \cup Upper \cup {"[", "]", "_"}

Min(a, b) == IF a < b THEN a ELSE b
Max(a, b) == IF a > b THEN a ELSE b

\* the element of a one-element set: Only({F(x) : x \in {e}}) is F applied to
\* the value of e
Only(S) == CHOOSE x \in S : TRUE

Least(S) == CHOOSE x \in S : \A y \in S : x <= y
Greatest(S) == CHOOSE x \in S : \A y \in S : y <= x

\* the length of the longest run of whitespace of s that starts at i
SpaceRun(s, i) ==
    CHOOSE r \in 0..(Len(s) - i + 1) :
        /\ \A j \in i..(i + r - 1) : IsSpace(s[j])
        /\ (i + r > Len(s) \/ ~IsSpace(s[i + r]))

\* the length of the run of whitespace that ends s
SpaceRunBack(s) ==
    CHOOSE r \in 0..Len(s) :
        /\ \A j \in (Len(s) - r + 1)..Len(s) : IsSpace(s[j])
        /\ (r = Len(s) \/ ~IsSpace(s[Len(s) - r]))

LStrip(s) == SubSeq(s, SpaceRun(s, 1) + 1, Len(s))

RStrip(s) == SubSeq(s, 1, Len(s) - SpaceRunBack(s))

Strip(s) == Only({LStrip(t) : t \in {RStrip(s)}})

StartsWith(s, p) == Len(s) >= Len(p) /\ SubSeq(s, 1, Len(p)) = p

EndsWith(s, p) ==
    Len(s) >= Len(p) /\ SubSeq(s, Len(s) - Len(p) + 1, Len(s)) = p

\* c in s
Contains(s, c) == \E k \in 1..Len(s) : s[k] = c

\* str.find: the 0-based index of the first occurrence of sub, or -1
Find(s, sub) ==
    LET hits == {k \in 1..(Len(s) - Len(sub) + 1) :
                     SubSeq(s, k, k + Len(sub) - 1) = sub}
    IN  IF hits = {} THEN -1 ELSE Least(hits) - 1

\* s[start:end] with Python's negative indices
PySlice(s, start, end) ==
    LET n  == Len(s)
        lo == IF start < 0 THEN Max(n + start, 0) ELSE Min(start, n)
        hi == IF end < 0 THEN Max(n + end, 0) ELSE Min(end, n)
    IN  SubSeq(s, lo + 1, hi)

\* str.split(sep) for a one-character separator: never empty
Split(s, sep) ==
    LET from[i \in 1..(Len(s) + 1)] ==
            LET ks == {k \in i..Len(s) : s[k] = sep}
            IN  IF ks = {} THEN <<SubSeq(s, i, Len(s))>>
                ELSE <<SubSeq(s, i, Least(ks) - 1)>> \o from[Least(ks) + 1]
    IN  from[1]

Continuation == {"82", "AC"}

\* the character that "E2" and two continuation bytes encode
CharOf(x, y) ==
    CASE x = "82" /\ y = "AC" -> "EUR"
      [] x = "82" /\ y = "82" -> "U+2082"
      [] x = "AC" /\ y = "82" -> "U+2B02"
      [] x = "AC" /\ y = "AC" -> "U+2B2C"

BytesOf(c) ==
    CASE c = "EUR" -> <<"E2", "82", "AC">>
      [] c = "U+2082" -> <<"E2", "82", "82">>
      [] c = "U+2B02" -> <<"E2", "AC", "82">>
      [] c = "U+2B2C" -> <<"E2", "AC", "AC">>
      [] OTHER -> <<c>>

\* bytes.decode('utf-8') raises no UnicodeDecodeError: every "E2" starts a
\* whole character and every continuation byte belongs to one
Decodable(b) ==
    /\ \A i \in 1..Len(b) :
          b[i] = "E2" => /\ i + 2 <= Len(b)
                         /\ b[i + 1] \in Continuation
                         /\ b[i + 2] \in Continuation
    /\ \A j \in 1..Len(b) :
          b[j] \in Continuation => \/ (j > 1 /\ b[j - 1] = "E2")
                                   \/ (j > 2 /\ b[j - 2] = "E2")

\* the text of decodable bytes: one character for each byte that starts one
DecodeText(b) ==
    Only({ [k \in 1..Len(at) |->
               IF b[at[k]] = "E2" THEN CharOf(b[at[k] + 1], b[at[k] + 2])
               ELSE b[at[k]]]
           : at \in {SelectSeq([p \in 1..Len(b) |-> p],
                               LAMBDA i : b[i] \notin Continuation)} })

\* bytes.decode('utf-8'): <<TRUE, text>>, or <<FALSE, <<>>>> on UnicodeDecodeError
Decode(b) == IF Decodable(b) THEN <<TRUE, DecodeText(b)>> ELSE <<FALSE, <<>>>>

\* str.encode('utf-8'): the bytes of each character, in order; the k-th byte
\* is byte k - Before(i) of the character i it falls in
Encode(s) ==
    LET Before(i) == (i - 1) + 2 * Cardinality({j \in 1..(i - 1) :
                                                   Len(BytesOf(s[j])) = 3})
        Total     == Len(s) + 2 * Cardinality({j \in 1..Len(s) :
                                                  Len(BytesOf(s[j])) = 3})
    IN  [k \in 1..Total |->
            LET i == CHOOSE c \in 1..Len(s) :
                        /\ Before(c) < k
                        /\ k <= Before(c) + Len(BytesOf(s[c]))
            IN  BytesOf(s[i])[k - Before(i)]]

(***************************************************************************)
(* The regular expressions of ai_terminal.py, each matched the way         *)
(* Python's re matches it (leftmost, greedy or lazy, with backtracking).   *)
(***************************************************************************)
\* the length of the longest run of word characters of s that starts at i
WordRun(s, i) ==
    CHOOSE r \in 0..(Len(s) - i + 1) :
        /\ \A j \in i..(i + r - 1) : IsWord(s[j])
        /\ (i + r > Len(s) \/ ~IsWord(s[i + r]))

\* the length of the longest run of s that starts at i within the class
CsiParamRun(s, i) ==
    CHOOSE r \in 0..(Len(s) - i + 1) :
        /\ \A j \in i..(i + r - 1) : IsCsiParam(s[j])
        /\ (i + r > Len(s) \/ ~IsCsiParam(s[i + r]))

CsiInterRun(s, i) ==
    CHOOSE r \in 0..(Len(s) - i + 1) :
        /\ \A j \in i..(i + r - 1) : IsCsiInter(s[j])
        /\ (i + r > Len(s) \/ ~IsCsiInter(s[i + r]))

\* the length of the match of \x1B(?:[@-Z\\-_]|\[[0-?]*[ -/]*[@-~]) at
\* position i of s, 0 when there is none
AnsiMatchLen(s, i) ==
    IF i + 1 > Len(s) \/ s[i] # "ESC" THEN 0
    ELSE IF IsAnsiShort(s[i + 1]) THEN 2
    ELSE IF s[i + 1] # "[" THEN 0
    ELSE LET p == CsiParamRun(s, i + 2)
             q == CsiInterRun(s, i + 2 + p)
             f == i + 2 + p + q
         IN  IF f <= Len(s) /\ IsCsiFinal(s[f]) THEN f - i + 1 ELSE 0

\* ansi_escape.sub('', s): the characters outside every match; a match
\* starts at every ESC that has one, as no match holds an ESC after its first
\* character
StripAnsi(s) ==
    Only({ [k \in 1..Len(at) |-> s[at[k]]]
           : at \in {SelectSeq([p \in 1..Len(s) |-> p],
                               LAMBDA j : j \notin gone)
                     : gone \in {UNION {i..(i + AnsiMatchLen(s, i) - 1)
                                          : i \in 1..Len(s)}}} })

\* control_chars.sub(' ', s): every run of control characters becomes a space
\* (which stands where the run ends)
SubControl(s) ==
    Only({ [k \in 1..Len(at) |->
               IF IsControl(s[at[k]]) THEN " " ELSE s[at[k]]]
           : at \in {SelectSeq([p \in 1..Len(s) |-> p], LAMBDA i :
                         \/ ~IsControl(s[i])
                         \/ i = Len(s)
                         \/ ~IsControl(s[i + 1]))} })

\* re.sub(r'\s+', ' ', s)
SubSpace(s) ==
    Only({ [k \in 1..Len(at) |-> IF IsSpace(s[at[k]]) THEN " " ELSE s[at[k]]]
           : at \in {SelectSeq([p \in 1..Len(s) |-> p], LAMBDA i :
                         \/ ~IsSpace(s[i])
                         \/ i = Len(s)
                         \/ ~IsSpace(s[i + 1]))} })

\* lines 217-221: the four steps, each on the result of the one before
clean_terminal_output(raw_output) ==
    Only({Strip(d) : d \in {SubSpace(c) : c \in
             {SubControl(b) : b \in {StripAnsi(a) : a \in {raw_output}}}}})

\* the lengths m >= 1 of a lazy group (.+?) that starts at b and is followed
\* by '%' (or, with atEnd, by the end of the string)
LazyLens(s, b, atEnd) ==
    {m \in 1..(Len(s) - b + 1) :
        /\ \A j \in b..(b + m - 1) : s[j] # "LF"
        /\ \/ (b + m <= Len(s) /\ s[b + m] = "%")
           \/ (atEnd /\ b + m = Len(s) + 1)
           \/ (atEnd /\ b + m = Len(s) /\ s[Len(s)] = "LF")}

\* the rest of a match of 1;(\w+)\s+(.+?)(?=%) that starts at k and whose
\* group 1 ends before a: \s+ takes as much whitespace as leaves a group 2,
\* the lazy group 2 as little as it can
PromptMatchTail(s, k, a, atEnd) ==
    LET ws == {w \in 1..SpaceRun(s, a) : LazyLens(s, a + w, atEnd) # {}}
    IN  IF ws = {} THEN <<FALSE, <<>>, <<>>>>
        ELSE Only({ <<TRUE, SubSeq(s, k + 2, a - 1),
                      SubSeq(s, b, b + Least(LazyLens(s, b, atEnd)) - 1)>>
                    : b \in {a + Greatest(ws)} })

\* the match of 1;(\w+)\s+(.+?)(?=%) (atEnd: (?=%|$)) that starts at k:
\* <<TRUE, group 1, group 2>>, or <<FALSE, <<>>, <<>>>>
PromptMatchAt(s, k, atEnd) ==
    IF ~(k + 1 <= Len(s) /\ s[k] = "1" /\ s[k + 1] = ";")
    THEN <<FALSE, <<>>, <<>>>>
    ELSE Only({ IF wr = 0 THEN <<FALSE, <<>>, <<>>>>
                ELSE PromptMatchTail(s, k, k + 2 + wr, atEnd)
                : wr \in {WordRun(s, k + 2)} })

\* pattern.search(s): the match at the leftmost position that has one
PromptSearch(s, atEnd) ==
    LET ks == {k \in 1..Len(s) : PromptMatchAt(s, k, atEnd)[1]}
    IN  IF ks = {} THEN <<FALSE, <<>>, <<>>>>
        ELSE PromptMatchAt(s, Least(ks), atEnd)

(***************************************************************************)
(* is_ai_command                                                           *)
(***************************************************************************)
\* ^ai(?:\s+(.+))?$ on 'ai' + rest when \s+ takes w characters: the greedy
\* group (.+) runs up to the first newline (or the end), and $ matches there
\* only at the end of the string or before a newline that ends it
AiGroupEnd(rest, w) ==
    LET nl == {j \in (w + 1)..Len(rest) : rest[j] = "LF"}
    IN  IF nl = {} THEN Len(rest)
        ELSE Least(nl) - 1

AiGroupOk(rest, w) ==
    /\ w + 1 <= AiGroupEnd(rest, w)
    /\ AiGroupEnd(rest, w) >= Len(rest) - 1

AiGroup(rest, w) == SubSeq(rest, w + 1, AiGroupEnd(rest, w))

is_ai_command(command) ==
    IF ~(command = <<"a", "i">> \/ StartsWith(command, <<"a", "i", " ">>))
    THEN <<FALSE, <<>>>>
    ELSE Only({ LET ws == {w \in 1..SpaceRun(rest, 1) : AiGroupOk(rest, w)}
                IN  IF ws # {}
                    THEN <<TRUE, Strip(AiGroup(rest, Greatest(ws)))>>
                    ELSE IF rest = <<>> \/ rest = <<"LF">> THEN <<TRUE, <<>>>>
                    ELSE <<FALSE, <<>>>>
                : rest \in {SubSeq(command, 3, Len(command))} })

(***************************************************************************)
(* add_to_history                                                          *)
(***************************************************************************)
\* add_to_history with history.pop() in the place of history.pop(0)
add_to_history_pop_last(h, command) ==
    LET h1 == Append(h, command)
    IN  IF Len(h1) > MAX_HISTORY_SIZE THEN SubSeq(h1, 1, Len(h1) - 1) ELSE h1

add_to_history(h, command) ==
    LET h1 == Append(h, command)
    IN  IF Len(h1) > MAX_HISTORY_SIZE THEN Tail(h1) ELSE h1

(***************************************************************************)
(* parse_terminal_output: <<"ok", (input_command, output)>>, or            *)
(* <<"IndexError", <<>>>> when split(";")[1] does not exist.               *)
(***************************************************************************)
parse_terminal_output(raw_output) ==
    Only({ LET start  == Find(cleaned_output, <<"2", ";">>)
               end    == Find(cleaned_output, <<"1", ";">>)
               pieces == Split(PySlice(cleaned_output, start, end), ";")
           IN  IF Len(pieces) < 2 THEN <<"IndexError", <<>>>>
               ELSE Only({ IF match[1]
                           THEN <<"ok", <<RStrip(pieces[2]), Strip(match[3])>>>>
                           ELSE <<"ok", <<RStrip(pieces[2]), <<>>>>>>
                           : match \in {PromptSearch(cleaned_output, TRUE)} })
           : cleaned_output \in {clean_terminal_output(raw_output)} })

(***************************************************************************)
(* The terminal attributes: the two local flags tty.setcbreak clears.      *)
(***************************************************************************)
\* tty.setcbreak: mode[LFLAG] & ~(ECHO | ICANON)
setcbreak(mode) == [mode EXCEPT !.icanon = FALSE, !.echo = FALSE]

\* the attributes of the terminal when the program starts: line-buffered,
\* with echo
OriginalModes == {[icanon |-> TRUE, echo |-> TRUE]}

\* the finally clause of main: termios.tcsetattr(sys.stdin, TCSADRAIN, old_tty);
\* how is "eof" after a break of the loop and the exception's name otherwise
main_finally_on_break_only(how, current, saved) ==
    IF how = "eof" THEN saved ELSE current

main_finally(how, current, saved) == saved

(***************************************************************************)
(* The bytes the environment delivers.                                     *)
(***************************************************************************)
None == <<"None">>

\* what the user types: a command line, a meta-command line, a key, a line
\* that is not UTF-8, an empty line, a read that ends after the first byte of
\* a character, and end of input
StdinChunks ==
    { <<"l", "s", "LF">>, <<"a", "i", "LF">>, <<"l">>, <<"E2", "LF">>,
      <<"LF">>, <<"LF", "E2">>, <<>> }

\* the shell's reply to ls with the two title escapes of the prompt hooks
LsReply ==
    <<"CR", "LF", "ESC", "]", "2", ";", "l", "s", "BEL",
      "ESC", "]", "1", ";", "l", "s", "BEL",
      "f", "1", " ", "f", "2", "CR", "LF", "%", " ">>

AiReply ==
    <<"ESC", "]", "2", ";", "a", "i", "BEL",
      "ESC", "]", "1", ";", "a", "i", "BEL", "n", "f", "CR", "LF", "%", " ">>

AiHiReply ==
    <<"ESC", "]", "2", ";", "a", "i", " ", "h", "i", "BEL",
      "ESC", "]", "1", ";", "a", "i", "BEL", "n", "f", "CR", "LF", "%", " ">>

\* output and a prompt character with neither marker
NoMarkerReply == <<"f", "1", "CR", "LF", "%", " ">>

\* what the shell emits: replies with the markers, a reply without them, plain
\* output, a bare prompt, a character split over two chunks, end of output
PtyChunks ==
    { LsReply, AiReply, AiHiReply, NoMarkerReply, <<"f", "1">>, <<"%", " ">>,
      <<"E2", "82">>, <<"AC">>, <<>> }

\* the shell's reply to pwd, in two chunks, and the output after its prompt
PwdReply ==
    << <<"ESC", "]", "1", ";", "p", "w", "d", "BEL">>,
       <<"/", "t", "CR", "LF", "%", " ">>,
       <<"f", "2">> >>

\* what execute finds on the PTY: the chunks the shell has for it, and what
\* follows them: silence for the whole timeout, or the end of the output
ExecReplies ==
    { [chunks |-> <<>>, then |-> "timeout"],
      [chunks |-> <<>>, then |-> "eof"],
      [chunks |-> PwdReply, then |-> "timeout"],
      [chunks |-> << <<"E2", "82">> >>, then |-> "timeout"] }

\* during the bootstrap the shell answers with its prompt or stays silent
BootReplies ==
    { [chunks |-> <<>>, then |-> "timeout"],
      [chunks |-> PwdReply, then |-> "timeout"] }

\* what the completion service does with a request: the content of the
\* deltas it streams (None or empty in a chunk without text), and whether the
\* call or the stream then fails
ServiceReplies ==
    { [deltas |-> << <<"o">>, None, <<"k">>, <<>> >>, fails |-> FALSE],
      [deltas |-> <<>>, fails |-> TRUE],
      [deltas |-> << <<"o">> >>, fails |-> TRUE] }

\* the lines input() returns in conversation mode
ConvLines == { <<"e", "x", "i", "t">>, <<"E", "X", "I", "T">>, <<"h", "i">> }

\* str.lower
LowerChar(c) ==
    CASE c = "A" -> "a" [] c = "E" -> "e" [] c = "I" -> "i" [] c = "T" -> "t"
      [] c = "W" -> "w" [] c = "X" -> "x" [] OTHER -> c

LowerStr(s) == [k \in 1..Len(s) |-> LowerChar(s[k])]

\* the chunks joined
Concat(ss) ==
    LET rest[i \in 1..(Len(ss) + 1)] ==
            IF i > Len(ss) THEN <<>> ELSE ss[i] \o rest[i + 1]
    IN  rest[1]

(***************************************************************************)
(* execute                                                                 *)
(***************************************************************************)
\* lines 161-172, the read loop: the chunks read before the loop stops at a
\* chunk with '%', at the end of the output or at the timeout
execute_reads(chunks) ==
    LET stops == {k \in 1..Len(chunks) : Contains(chunks[k], "%")}
    IN  IF stops = {} THEN chunks ELSE SubSeq(chunks, 1, Least(stops))

\* lines 174-190: what execute returns for the bytes it read: the pair of the
\* match, ('', '') without one, and '' when the bytes do not decode
execute_return(read) ==
    IF ~Decodable(read) THEN <<>>
    ELSE Only({ IF match[1] THEN <<Strip(match[2]), Strip(match[3])>>
                ELSE << <<>>, <<>> >>
                : match \in {PromptSearch(cleaned_output, FALSE) :
                      cleaned_output \in {clean_terminal_output(raw_output) :
                          raw_output \in {DecodeText(read)}}} })

\* lines 153-157: the bytes execute sends: a newline is added when there is
\* none
execute_command(command) ==
    Encode(IF EndsWith(command, <<"LF">>) THEN command
           ELSE command \o <<"LF">>)

\* lines 163-172: how the read loop is left: at a chunk with '%' ("prompt"),
\* or as the reply says: select times out, or os.read returns no bytes
execute_ended(reply) ==
    IF \E k \in 1..Len(reply.chunks) : Contains(reply.chunks[k], "%")
    THEN "prompt" ELSE reply.then

\* execute(master_fd, command): what is written to the PTY, what is read from
\* it, how the read loop ended, and what is returned
execute(command, reply) ==
    Only({ [written |-> execute_command(command), read |-> read,
            ended |-> execute_ended(reply),
            returned |-> execute_return(read)]
           : read \in {Concat(execute_reads(reply.chunks))} })

CmdClear == <<"c", "l", "e", "a", "r">>

CmdWelcome ==
    <<"e", "c", "h", "o", " ", "'", "W", "e", "l", "c", "o", "m", "e", " ",
      "t", "o", " ", "t", "h", "e", " ", "A", "I", " ", "t", "e", "r", "m",
      "i", "n", "a", "l", "!", "'">>

CmdEchoStatus == <<"e", "c", "h", "o", " ", "$", "?">>

CmdPwd == <<"p", "w", "d">>

(***************************************************************************)
(* The relay's two handlers, as functions of the loop's variables.         *)
(***************************************************************************)
\* lines 290-302: the buffers after a chunk of user input, and the bytes
\* written to the PTY
\* on_stdin with the write to the PTY inside the try block, after the decode
on_stdin_late_write(command_buffer_, output_buffer_, last_command_, data_) ==
    LET cb      == command_buffer_ \o data_
        newline == Contains(data_, "LF") \/ Contains(data_, "CR")
        text    == Decode(cb)
        command == IF text[1] THEN Strip(text[2]) ELSE <<>>
        entered == newline /\ text[1] /\ command # <<>>
    IN  [command_buffer |-> IF newline THEN <<>> ELSE cb,
         last_command   |-> IF entered THEN command ELSE last_command_,
         output_buffer  |-> IF entered THEN <<>> ELSE output_buffer_,
         written        |-> IF newline /\ ~text[1] THEN <<>> ELSE data_]

on_stdin(command_buffer_, output_buffer_, last_command_, data_) ==
    LET cb      == command_buffer_ \o data_
        newline == Contains(data_, "LF") \/ Contains(data_, "CR")
        text    == Decode(cb)
        command == IF text[1] THEN Strip(text[2]) ELSE <<>>
        entered == newline /\ text[1] /\ command # <<>>
    IN  [command_buffer |-> IF newline THEN <<>> ELSE cb,
         last_command   |-> IF entered THEN command ELSE last_command_,
         output_buffer  |-> IF entered THEN <<>> ELSE output_buffer_,
         written        |-> data_]

\* re.sub(f'^.*{last_command}.*\n', '', text) for a command of letters and
\* spaces: the text up to the end of the line in which the command occurs
\* goes, when the command starts in the first line
RemoveEcho(text, command) ==
    LET ps == {p \in 1..(Len(text) - Len(command) + 1) :
                 /\ SubSeq(text, p, p + Len(command) - 1) = command
                 /\ \A j \in 1..(p - 1) : text[j] # "LF"
                 /\ \E q \in (p + Len(command))..Len(text) : text[q] = "LF"}
    IN  IF ps = {} THEN text
        ELSE Only({ SubSeq(text,
                           Least({q \in e..Len(text) : text[q] = "LF"}) + 1,
                           Len(text))
                    : e \in {Greatest(ps) + Len(command)} })

\* lines 315-325: a prompt character was seen after a command
on_prompt(ob, output, last_command_) ==
    Only({ IF cleaned_output = <<>>
           THEN [kind |-> "clear", output_buffer |-> <<>>, pair |-> <<>>]
           ELSE Only({ IF r[1] = "IndexError"
                       THEN [kind |-> "IndexError", output_buffer |-> ob,
                             pair |-> <<>>]
                       ELSE [kind |-> "pair", output_buffer |-> ob,
                             pair |-> r[2]]
                       : r \in {parse_terminal_output(cleaned_output)} })
           : cleaned_output \in
                 {Strip(t) : t \in {RemoveEcho(a, last_command_) : a \in
                     {StripAnsi(part) : part \in {Split(output, "%")[1]}}}} })

\* lines 309-325: what a chunk of PTY output does: "relay" (nothing to parse),
\* "clear" (a prompt and nothing before it), "pair" (a pair was parsed),
\* "IndexError" (parse_terminal_output raised)
\* on_master without the test of last_command at line 313
on_master_any_prompt(output_buffer_, last_command_, data_) ==
    Only({ IF ~Decodable(ob)
           THEN [kind |-> "relay", output_buffer |-> ob, pair |-> <<>>]
           ELSE Only({ IF ~Contains(output, "%")
                       THEN [kind |-> "relay", output_buffer |-> ob,
                             pair |-> <<>>]
                       ELSE on_prompt(ob, output, last_command_)
                       : output \in {DecodeText(ob)} })
           : ob \in {output_buffer_ \o data_} })

on_master(output_buffer_, last_command_, data_) ==
    Only({ IF ~Decodable(ob)
           THEN [kind |-> "relay", output_buffer |-> ob, pair |-> <<>>]
           ELSE Only({ IF ~Contains(output, "%") \/ last_command_ = None
                       THEN [kind |-> "relay", output_buffer |-> ob,
                             pair |-> <<>>]
                       ELSE on_prompt(ob, output, last_command_)
                       : output \in {DecodeText(ob)} })
           : ob \in {output_buffer_ \o data_} })

\* lines 336-341 and 67, 95: where a command record goes
\* dispatch_route with `if is_ai and prompt` at line 338
dispatch_route_needs_prompt(input) ==
    LET c == is_ai_command(input)
    IN  IF c[1] /\ c[2] # <<>> THEN "single" ELSE "history"

dispatch_route(input) ==
    LET c == is_ai_command(input)
    IN  IF c[1] THEN (IF c[2] # <<>> THEN "single" ELSE "conversation")
        ELSE "history"

\* history[-10:], from which handle_ai_query builds the context
context_of(h) == SubSeq(h, Max(Len(h) - 9, 1), Len(h))

\* lines 17-19 and 262-267: what the process finds when it starts: the
\* credential os.getenv returns (None when it is unset), and what becomes
\* of the shell: pty.fork fails, os.execlp fails in the child, or zsh runs
Environments ==
    [OPENAI_API_KEY : {None, <<>>, <<"s", "k">>},
     spawn : {"ok", "fork fails", "exec fails"}]

\* the credential is set and zsh runs
Started == [OPENAI_API_KEY |-> <<"s", "k">>, spawn |-> "ok"]

(***************************************************************************)
(* The state.                                                              *)
(***************************************************************************)
VARIABLES
    pc,              \* where main is
    tty,             \* the attributes of the controlling terminal
    old_tty,         \* main: the attributes saved at line 269
    command_buffer,  \* main: the bytes typed since the last line end
    output_buffer,   \* main: the PTY bytes since the last command
    last_command,    \* main: the submitted command, or None
    ready_fds,       \* main: what select returned
    data,            \* main: the chunk being handled
    parsed_output,   \* main: the pair parse_terminal_output returned
    last_ret_value,  \* main: what execute("echo $?") returned
    pwd_res,         \* main: what execute("pwd") returned
    history,         \* the module's history list
    messages,        \* handle_ai_query: the conversation's messages
    raised,          \* the exception that ended main, "eof" after a break
    stdin_read,      \* every byte read from the user's input
    pty_written,     \* every write to the PTY: who wrote it, and the bytes
    pty_read,        \* every byte read from the PTY, by the loop or by execute
    stdout_written,  \* every byte os.write sent to the real terminal
    routes,          \* every dispatch: the pair and where it went
    requests,        \* every request sent to the completion service
    appended,        \* every record given to add_to_history
    nreads,          \* reads of the relay loop so far
    nturns,          \* lines read by conversation mode so far
    fn_arg,          \* the argument of the function a specification applies
    fn_ret,          \* its result
    environ,         \* the process: the credential, and how the spawn goes
    lines            \* every line input() returned, and what it led to

vars ==
    <<pc, tty, old_tty, command_buffer, output_buffer, last_command,
      ready_fds, data, parsed_output, last_ret_value, pwd_res, history,
      messages, raised, stdin_read, pty_written, pty_read, stdout_written,
      routes, requests, appended, nreads, nturns, fn_arg, fn_ret, environ,
      lines>>

loop_vars == <<command_buffer, output_buffer, last_command>>
pair_vars == <<data, parsed_output, last_ret_value, pwd_res>>
io_vars   == <<stdin_read, pty_written, pty_read, stdout_written>>
fn_vars   == <<fn_arg, fn_ret>>
env_vars  == <<environ, lines>>
tty_vars  == <<tty, old_tty>>

\* the relay's variables before the loop starts, lines 269-275
Idle ==
    /\ tty \in OriginalModes
    /\ old_tty = tty
    /\ command_buffer = <<>>
    /\ output_buffer = <<>>
    /\ last_command = None
    /\ ready_fds = {}
    /\ data = <<>>
    /\ parsed_output = <<>>
    /\ last_ret_value = <<>>
    /\ pwd_res = <<>>
    /\ messages = <<>>
    /\ raised = "no"
    /\ stdin_read = <<>>
    /\ pty_written = <<>>
    /\ pty_read = <<>>
    /\ stdout_written = <<>>
    /\ routes = <<>>
    /\ requests = <<>>
    /\ nreads = 0
    /\ nturns = 0
    /\ lines = <<>>

\* main, lines 262-276: the child is forked and the attributes are saved
Init ==
    /\ pc = "start"
    /\ Idle
    /\ environ = Started
    /\ history = <<>>
    /\ appended = <<>>
    /\ fn_arg = <<>>
    /\ fn_ret = <<>>

(***************************************************************************)
(* main                                                                    *)
(***************************************************************************)
\* an exception leaves the try block (or a break leaves the loop): the
\* finally clause is next
Raise(how) ==
    /\ pc' = "finally"
    /\ raised' = how

\* line 278
Setcbreak ==
    /\ pc = "start"
    /\ tty' = setcbreak(tty)
    /\ pc' = "boot_clear"
    /\ UNCHANGED <<old_tty, loop_vars, ready_fds, pair_vars, history, messages,
                   raised, io_vars, routes, requests, appended, nreads,
                   nturns, fn_vars, env_vars>>

\* one call of execute: the command is written, the reply is read and kept
\* from the real terminal
Execute(r) ==
    /\ pty_written' = Append(pty_written, <<"execute", r.written>>)
    /\ pty_read' = pty_read \o r.read
    /\ UNCHANGED <<stdin_read, stdout_written>>

\* line 279, with a shell at the other end of the PTY
BootClear ==
    /\ pc = "boot_clear"
    /\ environ.spawn = "ok"
    /\ \E reply \in BootReplies : \E r \in {execute(CmdClear, reply)} :
          Execute(r)
    /\ pc' = "boot_welcome"
    /\ UNCHANGED <<tty_vars, loop_vars, ready_fds, pair_vars, history,
                   messages, raised, routes, requests, appended, nreads,
                   nturns, fn_vars, env_vars>>

\* line 280
BootWelcome ==
    /\ pc = "boot_welcome"
    /\ \E reply \in BootReplies : \E r \in {execute(CmdWelcome, reply)} :
          Execute(r)
    /\ pc' = "select"
    /\ UNCHANGED <<tty_vars, loop_vars, ready_fds, pair_vars, history,
                   messages, raised, routes, requests, appended, nreads,
                   nturns, fn_vars, env_vars>>

\* line 283: select returns when the user's input, the PTY or both are ready
Select ==
    /\ pc = "select"
    /\ \E r \in {{"stdin"}, {"master_fd"}, {"stdin", "master_fd"}} :
          /\ nreads + Cardinality(r) <= MaxReads
          /\ ready_fds' = r
          /\ pc' = IF "stdin" \in r THEN "stdin" ELSE "master_fd"
    /\ UNCHANGED <<tty_vars, loop_vars, pair_vars, history, messages, raised,
                   io_vars, routes, requests, appended, nreads, nturns,
                   fn_vars, env_vars>>

\* lines 285-302, a chunk of user input
Stdin ==
    /\ pc = "stdin"
    /\ \E chunk \in StdinChunks \ {<<>>} :
        \E r \in {on_stdin(command_buffer, output_buffer, last_command, chunk)} :
              /\ command_buffer' = r.command_buffer
              /\ last_command' = r.last_command
              /\ output_buffer' = r.output_buffer
              /\ stdin_read' = stdin_read \o chunk
              /\ pty_written' =
                    IF r.written = <<>> THEN pty_written
                    ELSE Append(pty_written, <<"user", r.written>>)
    /\ nreads' = nreads + 1
    /\ pc' = IF "master_fd" \in ready_fds THEN "master_fd" ELSE "select"
    /\ UNCHANGED <<tty_vars, ready_fds, pair_vars, history, messages, raised,
                   pty_read, stdout_written, routes, requests, appended,
                   nturns, fn_vars, env_vars>>

\* lines 286-288: the user's input is at its end
StdinEOF ==
    /\ pc = "stdin"
    /\ <<>> \in StdinChunks
    /\ nreads' = nreads + 1
    /\ Raise("eof")
    /\ UNCHANGED <<tty_vars, loop_vars, ready_fds, pair_vars, history,
                   messages, io_vars, routes, requests, appended, nturns,
                   fn_vars, env_vars>>

\* line 353
WriteStdout(chunk) == stdout_written' = stdout_written \o chunk

\* lines 345-353, after the dispatch: the cycle is over, the chunk is relayed
EndCycle ==
    /\ last_command' = None
    /\ output_buffer' = <<>>
    /\ WriteStdout(data)
    /\ data' = <<>>
    /\ parsed_output' = <<>>
    /\ last_ret_value' = <<>>
    /\ pwd_res' = <<>>
    /\ pc' = "select"

\* lines 304-353, a chunk of PTY output that completes no pair
MasterRelay(chunk, r) ==
    /\ r.kind \in {"relay", "clear"}
    /\ WriteStdout(chunk)
    /\ pc' = "select"
    /\ UNCHANGED <<pair_vars, raised>>

\* lines 304-325, a chunk of PTY output with a prompt after a command
MasterPair(chunk, r) ==
    /\ r.kind = "pair"
    /\ data' = chunk
    /\ parsed_output' = r.pair
    /\ pc' = "exec_ret"
    /\ UNCHANGED <<last_ret_value, pwd_res, raised, stdout_written>>

\* line 325: parse_terminal_output raises, and nothing in main catches it
MasterIndexError(chunk, r) ==
    /\ r.kind = "IndexError"
    /\ data' = chunk
    /\ Raise("IndexError in parse_terminal_output")
    /\ UNCHANGED <<parsed_output, last_ret_value, pwd_res, stdout_written>>

\* lines 304-353, a chunk of PTY output
Master ==
    /\ pc = "master_fd"
    /\ \E chunk \in PtyChunks \ {<<>>} :
        \E r \in {on_master(output_buffer, last_command, chunk)} :
              /\ output_buffer' = r.output_buffer
              /\ pty_read' = pty_read \o chunk
              /\ \/ MasterRelay(chunk, r)
                 \/ MasterPair(chunk, r)
                 \/ MasterIndexError(chunk, r)
    /\ nreads' = nreads + 1
    /\ UNCHANGED <<tty_vars, command_buffer, last_command, ready_fds, history,
                   messages, stdin_read, pty_written, routes, requests,
                   appended, nturns, fn_vars, env_vars>>

\* lines 305-307: the PTY's output is at its end
MasterEOF ==
    /\ pc = "master_fd"
    /\ <<>> \in PtyChunks
    /\ nreads' = nreads + 1
    /\ Raise("eof")
    /\ UNCHANGED <<tty_vars, loop_vars, ready_fds, pair_vars, history,
                   messages, io_vars, routes, requests, appended, nturns,
                   fn_vars, env_vars>>

\* line 326
ExecRet ==
    /\ pc = "exec_ret"
    /\ \E reply \in ExecReplies : \E r \in {execute(CmdEchoStatus, reply)} :
          /\ Execute(r)
          /\ last_ret_value' = r.returned
    /\ pc' = "exec_pwd"
    /\ UNCHANGED <<tty_vars, loop_vars, ready_fds, data, parsed_output,
                   pwd_res, history, messages, raised, routes, requests,
                   appended, nreads, nturns, fn_vars, env_vars>>

\* line 327
ExecPwd ==
    /\ pc = "exec_pwd"
    /\ \E reply \in ExecReplies : \E r \in {execute(CmdPwd, reply)} :
          /\ Execute(r)
          /\ pwd_res' = r.returned
    /\ pc' = "dispatch"
    /\ UNCHANGED <<tty_vars, loop_vars, ready_fds, data, parsed_output,
                   last_ret_value, history, messages, raised, routes,
                   requests, appended, nreads, nturns, fn_vars, env_vars>>

\* lines 328-333: the record; pwd_res[1] and last_ret_value[1] need pairs
RecordBuilt == Len(pwd_res) >= 2 /\ Len(last_ret_value) >= 2

command_record ==
    [input |-> parsed_output[1], output |-> parsed_output[2],
     pwd |-> pwd_res[2], last_ret_value |-> last_ret_value[2]]

\* lines 331-332: execute returned '' and the index fails
RecordIndexError ==
    /\ pc = "dispatch"
    /\ ~RecordBuilt
    /\ Raise("IndexError in main")
    /\ UNCHANGED <<tty_vars, loop_vars, ready_fds, pair_vars, history,
                   messages, io_vars, routes, requests, appended, nreads,
                   nturns, fn_vars, env_vars>>

Routed(route) ==
    routes' = Append(routes, [input |-> parsed_output[1],
                              output |-> parsed_output[2], route |-> route])

\* lines 340-342: an ordinary command
DispatchHistory ==
    /\ pc = "dispatch"
    /\ RecordBuilt
    /\ dispatch_route(command_record.input) = "history"
    /\ history' = add_to_history(history, command_record)
    /\ appended' = Append(appended, command_record)
    /\ Routed("history")
    /\ EndCycle
    /\ UNCHANGED <<tty_vars, command_buffer, ready_fds, messages, raised,
                   stdin_read, pty_written, pty_read, requests, nreads,
                   nturns, fn_vars, env_vars>>

(***************************************************************************)
(* handle_ai_query                                                         *)
(***************************************************************************)
SystemPrompt == <<"You are a helpful terminal assistant.">>

\* lines 62-65: the context, built from the last ten records
context == <<"Previous commands and outputs:">> \o context_of(history)

\* lines 69-72: the messages of a single question
single_messages(prompt) ==
    <<[role |-> "system", content |-> SystemPrompt],
      [role |-> "user", content |-> context \o <<"Question:">> \o prompt]>>

\* lines 76-88 (and 116-129): the text of the answer, the deltas with content
\* joined in the order of the stream
\* full_response keeping the delta read last only
full_response_last_delta(deltas) ==
    LET text == SelectSeq(deltas, LAMBDA d : d \notin {None, <<>>})
    IN  IF text = <<>> THEN <<>> ELSE text[Len(text)]

full_response(deltas) ==
    Concat(SelectSeq(deltas, LAMBDA d : d \notin {None, <<>>}))

\* lines 67-94, single-question mode, the stream completes
SingleAnswered ==
    /\ pc = "dispatch"
    /\ RecordBuilt
    /\ dispatch_route(command_record.input) = "single"
    /\ \E reply \in ServiceReplies :
          LET prompt  == is_ai_command(command_record.input)[2]
              command == [user_input |-> prompt,
                          ai_response |-> full_response(reply.deltas)]
          IN  /\ ~reply.fails
              /\ requests' = Append(requests, single_messages(prompt))
              /\ history' = add_to_history(history, command)
              /\ appended' = Append(appended, command)
    /\ Routed("single")
    /\ EndCycle
    /\ UNCHANGED <<tty_vars, command_buffer, ready_fds, messages, raised,
                   stdin_read, pty_written, pty_read, nreads, nturns,
                   fn_vars, env_vars>>

\* lines 77-87, single-question mode: the call or the stream raises, and
\* nothing between here and main's finally catches it
SingleServiceError ==
    /\ pc = "dispatch"
    /\ RecordBuilt
    /\ dispatch_route(command_record.input) = "single"
    /\ \E reply \in ServiceReplies :
          /\ reply.fails
          /\ requests' =
                Append(requests,
                       single_messages(is_ai_command(command_record.input)[2]))
    /\ Routed("single")
    /\ Raise("ServiceError")
    /\ UNCHANGED <<tty_vars, loop_vars, ready_fds, pair_vars, history,
                   messages, io_vars, appended, nreads, nturns, fn_vars,
                   env_vars>>

\* lines 96-105: conversation mode is entered, the terminal gets the saved
\* attributes
ConversationEnter ==
    /\ pc = "dispatch"
    /\ RecordBuilt
    /\ dispatch_route(command_record.input) = "conversation"
    /\ messages' = <<[role |-> "system", content |-> SystemPrompt],
                     [role |-> "user", content |-> context]>>
    /\ tty' = old_tty
    /\ Routed("conversation")
    /\ pc' = "conversation"
    /\ UNCHANGED <<old_tty, loop_vars, ready_fds, pair_vars, history, raised,
                   io_vars, requests, appended, nreads, nturns, fn_vars,
                   env_vars>>

\* lines 135-138, the finally clause of conversation mode; how the loop was
\* left: "exit", "ServiceError" (both by break) or the exception of input()
\* conversation_finally with the setcbreak after the break of 'exit' only
conversation_finally_on_exit_only(how, mode) ==
    IF how = "exit" THEN setcbreak(mode) ELSE mode

conversation_finally(how, mode) == setcbreak(mode)

\* lines 109-111: the user leaves the conversation
ConversationExit ==
    /\ pc = "conversation"
    /\ \E user_input \in ConvLines :
          /\ LowerStr(user_input) = <<"e", "x", "i", "t">>
          /\ lines' = Append(lines, [line |-> user_input, then |-> "exit"])
    /\ tty' = conversation_finally("exit", tty)
    /\ messages' = <<>>
    /\ nturns' = nturns + 1
    /\ EndCycle
    /\ UNCHANGED <<old_tty, command_buffer, ready_fds, history, raised,
                   stdin_read, pty_written, pty_read, routes, requests,
                   appended, nreads, fn_vars, environ>>

\* lines 113-131: a line is sent with the whole conversation, the reply is
\* streamed and kept
ConversationReply ==
    /\ pc = "conversation"
    /\ nturns < MaxConvTurns
    /\ \E user_input \in ConvLines, reply \in ServiceReplies :
          LET sent == Append(messages,
                             [role |-> "user", content |-> user_input])
          IN  /\ LowerStr(user_input) # <<"e", "x", "i", "t">>
              /\ ~reply.fails
              /\ lines' = Append(lines, [line |-> user_input,
                                         then |-> "reply"])
              /\ requests' = Append(requests, sent)
              /\ messages' =
                    Append(sent, [role |-> "assistant",
                                  content |-> full_response(reply.deltas)])
    /\ nturns' = nturns + 1
    /\ UNCHANGED <<pc, tty_vars, loop_vars, ready_fds, pair_vars, history,
                   raised, io_vars, routes, appended, nreads, fn_vars,
                   environ>>

\* lines 132-134: the service fails, the error is printed and the loop left
ConversationServiceError ==
    /\ pc = "conversation"
    /\ nturns < MaxConvTurns
    /\ \E user_input \in ConvLines, reply \in ServiceReplies :
          /\ LowerStr(user_input) # <<"e", "x", "i", "t">>
          /\ reply.fails
          /\ lines' = Append(lines, [line |-> user_input,
                                     then |-> "ServiceError"])
          /\ requests' =
                Append(requests,
                       Append(messages,
                              [role |-> "user", content |-> user_input]))
    /\ tty' = conversation_finally("ServiceError", tty)
    /\ messages' = <<>>
    /\ nturns' = nturns + 1
    /\ EndCycle
    /\ UNCHANGED <<old_tty, command_buffer, ready_fds, history, raised,
                   stdin_read, pty_written, pty_read, routes, appended,
                   nreads, fn_vars, environ>>

\* line 109: input() raises at the end of the user's input; the finally
\* clause runs and the exception goes on to main
ConversationEOFError ==
    /\ pc = "conversation"
    /\ tty' = conversation_finally("EOFError", tty)
    /\ messages' = <<>>
    /\ Raise("EOFError")
    /\ UNCHANGED <<old_tty, loop_vars, ready_fds, pair_vars, history, io_vars,
                   routes, requests, appended, nreads, nturns, fn_vars,
                   env_vars>>

\* lines 355-356
Finally ==
    /\ pc = "finally"
    /\ tty' = main_finally(raised, tty, old_tty)
    /\ pc' = "done"
    /\ UNCHANGED <<old_tty, loop_vars, ready_fds, pair_vars, history,
                   messages, raised, io_vars, routes, requests, appended,
                   nreads, nturns, fn_vars, env_vars>>

Next ==
    \/ Setcbreak
    \/ BootClear
    \/ BootWelcome
    \/ Select
    \/ Stdin
    \/ StdinEOF
    \/ Master
    \/ MasterEOF
    \/ ExecRet
    \/ ExecPwd
    \/ RecordIndexError
    \/ DispatchHistory
    \/ SingleAnswered
    \/ SingleServiceError
    \/ ConversationEnter
    \/ ConversationExit
    \/ ConversationReply
    \/ ConversationServiceError
    \/ ConversationEOFError
    \/ Finally

Spec == Init /\ [][Next]_vars

(***************************************************************************)
(* The process: the import of the module, the fork, main, and the signals  *)
(* that reach it.                                                          *)
(***************************************************************************)
ProcessInit ==
    /\ pc = "import"
    /\ Idle
    /\ environ \in Environments
    /\ history = <<>>
    /\ appended = <<>>
    /\ fn_arg = <<>>
    /\ fn_ret = <<>>

\* lines 12-19: the module is loaded; without the credential it raises
\* ValueError and main is never called
Import ==
    /\ pc = "import"
    /\ IF environ.OPENAI_API_KEY \in {None, <<>>}
       THEN raised' = "ValueError" /\ pc' = "exited"
       ELSE raised' = raised /\ pc' = "fork"
    /\ UNCHANGED <<tty_vars, loop_vars, ready_fds, pair_vars, history,
                   messages, io_vars, routes, requests, appended, nreads,
                   nturns, fn_vars, env_vars>>

\* lines 262-269: pty.fork; when it raises, main ends before the try block;
\* when os.execlp raises it does so in the child, and the parent goes on
Fork ==
    /\ pc = "fork"
    /\ IF environ.spawn = "fork fails"
       THEN raised' = "OSError in pty.fork" /\ pc' = "exited"
       ELSE raised' = raised /\ pc' = "start"
    /\ UNCHANGED <<tty_vars, loop_vars, ready_fds, pair_vars, history,
                   messages, io_vars, routes, requests, appended, nreads,
                   nturns, fn_vars, env_vars>>

\* lines 157-166 called from line 279 when the child has ended without a
\* shell: the read loop gets the child's traceback (left out here), then
\* os.read raises OSError, the PTY having no other end
ExecuteOSError ==
    /\ pc = "boot_clear"
    /\ environ.spawn = "exec fails"
    /\ Raise("OSError in execute")
    /\ UNCHANGED <<tty_vars, loop_vars, ready_fds, pair_vars, history,
                   messages, io_vars, routes, requests, appended, nreads,
                   nturns, fn_vars, env_vars>>

\* where main is between line 278 and the finally clause
Running ==
    {"boot_clear", "boot_welcome", "select", "stdin", "master_fd",
     "exec_ret", "exec_pwd", "dispatch", "conversation"}

\* SIGINT: Python raises KeyboardInterrupt in main; in conversation mode the
\* finally clause of lines 135-138 runs on its way out
Sigint ==
    /\ pc \in Running
    /\ tty' = IF pc = "conversation"
              THEN conversation_finally("KeyboardInterrupt", tty) ELSE tty
    /\ Raise("KeyboardInterrupt")
    /\ UNCHANGED <<old_tty, loop_vars, ready_fds, pair_vars, history,
                   messages, io_vars, routes, requests, appended, nreads,
                   nturns, fn_vars, env_vars>>

\* SIGTERM: the program installs no handler, the process ends at once and no
\* finally clause runs
Sigterm ==
    /\ pc \in Running
    /\ pc' = "killed"
    /\ raised' = "SIGTERM"
    /\ UNCHANGED <<tty_vars, loop_vars, ready_fds, pair_vars, history,
                   messages, io_vars, routes, requests, appended, nreads,
                   nturns, fn_vars, env_vars>>

ProcessNext ==
    \/ Import
    \/ Fork
    \/ ExecuteOSError
    \/ Sigint
    \/ Sigterm
    \/ Next

SpecProcess == ProcessInit /\ [][ProcessNext]_vars

(***************************************************************************)
(* add_to_history on its own: one record after the other, past the         *)
(* capacity.                                                               *)
(***************************************************************************)
\* the records main and handle_ai_query append: command records, answers of
\* single-question mode, or the two in turn
RecordKinds == {"command", "answer", "mixed"}

\* the n-th record of a run, n standing for its text
HistoryRecord(kind, n) ==
    IF kind = "command" \/ (kind = "mixed" /\ n % 2 = 1)
    THEN [input |-> n, output |-> n, pwd |-> <<"/", "t">>,
          last_ret_value |-> <<"0">>]
    ELSE [user_input |-> n, ai_response |-> n]

HistoryInit ==
    /\ pc = "add_to_history"
    /\ Idle
    /\ environ = Started
    /\ history = <<>>
    /\ appended = <<>>
    /\ fn_arg \in RecordKinds
    /\ fn_ret = <<>>

\* lines 192-195
AddToHistory ==
    /\ pc = "add_to_history"
    /\ Len(appended) < MAX_HISTORY_SIZE + MaxOverflow
    /\ \E command \in {HistoryRecord(fn_arg, Len(appended) + 1)} :
          /\ history' = add_to_history(history, command)
          /\ appended' = Append(appended, command)
    /\ UNCHANGED <<pc, tty_vars, loop_vars, ready_fds, pair_vars, messages,
                   raised, io_vars, routes, requests, nreads, nturns,
                   fn_vars, env_vars>>

HistoryNext == AddToHistory

SpecHistory == HistoryInit /\ [][HistoryNext]_vars

(***************************************************************************)
(* is_ai_command on its own.                                               *)
(***************************************************************************)
ClassifyAlphabet == {"a", "i", "r", " ", "LF"}

\* the command strings: every string of the alphabet up to the bound, and
\* the examples of the documentation
ClassifyInputs ==
    UNION {[1..k -> ClassifyAlphabet] : k \in 0..MaxCmdLen}
    \cup { <<"a", "i", " ", "l", "i", "s", "t", " ", "f", "i", "l", "e", "s">>,
           <<"e", "c", "h", "o", " ", "a", "i">>,
           <<"A", "I">>,
           <<"a", "i", " ", " ", "h", "i", " ", " ">> }

ClassifyInit ==
    /\ pc = "is_ai_command"
    /\ Idle
    /\ environ = Started
    /\ history = <<>>
    /\ appended = <<>>
    /\ fn_arg \in ClassifyInputs
    /\ fn_ret = <<>>

\* lines 21-47
Classify ==
    /\ pc = "is_ai_command"
    /\ fn_ret' = is_ai_command(fn_arg)
    /\ pc' = "is_ai_command returned"
    /\ UNCHANGED <<tty_vars, loop_vars, ready_fds, pair_vars, history,
                   messages, raised, io_vars, routes, requests, appended,
                   nreads, nturns, fn_arg, env_vars>>

ClassifyNext == Classify

SpecClassify == ClassifyInit /\ [][ClassifyNext]_vars

(***************************************************************************)
(* parse_terminal_output on its own.                                       *)
(***************************************************************************)
ParseAlphabet == {"l", "s", ";", " "}

\* the buffers main passes at line 325 for a typed command: the text of the
\* two title escapes, each ended by BEL, and the output that follows them
ParseInputs ==
    { <<"2", ";">> \o cmd \o <<"BEL", "1", ";", "l", "s", "BEL">> \o out
      : cmd \in UNION {[1..k -> ParseAlphabet] : k \in 1..MaxCmdLen},
        out \in { <<"f", "1", " ", "f", "2", "CR", "LF">>, <<>> } }

ParseInit ==
    /\ pc = "parse_terminal_output"
    /\ Idle
    /\ environ = Started
    /\ history = <<>>
    /\ appended = <<>>
    /\ fn_arg \in ParseInputs
    /\ fn_ret = <<>>

\* lines 225-257
Parse ==
    /\ pc = "parse_terminal_output"
    /\ fn_ret' = parse_terminal_output(fn_arg)
    /\ pc' = "parse_terminal_output returned"
    /\ UNCHANGED <<tty_vars, loop_vars, ready_fds, pair_vars, history,
                   messages, raised, io_vars, routes, requests, appended,
                   nreads, nturns, fn_arg, env_vars>>

ParseNext == Parse

SpecParse == ParseInit /\ [][ParseNext]_vars

(***************************************************************************)
(* execute on its own.                                                     *)
(***************************************************************************)
\* what the shell may emit in one chunk while execute reads: the title escape
\* of a command, output with and without a prompt, output with the marker
\* and no prompt, the halves of a split character
ExecChunks ==
    { <<"ESC", "]", "1", ";", "p", "w", "d", "BEL">>,
      <<"/", "t", "CR", "LF", "%", " ">>,
      <<"f", "2">>,
      <<"1", ";", "p", " ", "x">>,
      <<"E2", "82">>,
      <<"AC">> }

ExecuteCommands == {CmdEchoStatus, CmdPwd, <<"l", "s", "LF">>}

ExecuteReplies ==
    [chunks : UNION {[1..k -> ExecChunks] : k \in 0..MaxChunks},
     then : {"timeout", "eof"}]

ExecuteInit ==
    /\ pc = "execute"
    /\ Idle
    /\ environ = Started
    /\ history = <<>>
    /\ appended = <<>>
    /\ fn_arg \in [command : ExecuteCommands, reply : ExecuteReplies]
    /\ fn_ret = <<>>

\* lines 140-190
ExecuteCall ==
    /\ pc = "execute"
    /\ \E r \in {execute(fn_arg.command, fn_arg.reply)} :
          /\ Execute(r)
          /\ fn_ret' = r
    /\ pc' = "execute returned"
    /\ UNCHANGED <<tty_vars, loop_vars, ready_fds, pair_vars, history,
                   messages, raised, routes, requests, appended, nreads,
                   nturns, fn_arg, env_vars>>

ExecuteNext == ExecuteCall

SpecExecute == ExecuteInit /\ [][ExecuteNext]_vars

(***************************************************************************)
(* The properties.                                                         *)
(***************************************************************************)
\* C1: after any sequence of add_to_history calls the history holds at most
\* 100 records, and it holds exactly the most recent min(n, 100) of the n
\* records appended, in the order of their insertion.
HistoryHoldsMostRecent ==
    LET n    == Len(appended)
        kept == IF n < 100 THEN n ELSE 100
    IN  /\ Len(history) <= 100
        /\ history = SubSeq(appended, n - kept + 1, n)

\* C1: 101 records were appended, the first one is gone and the 100 after it
\* are there
HistoryOverflowed ==
    /\ pc = "add_to_history"
    /\ Len(appended) = 101
    /\ Len(history) = 100
    /\ history[1] = appended[2]
    /\ history[100] = appended[101]

\* C2: when main ends, after the end of either channel's data or after an
\* exception raised inside the try block, the terminal has the attributes
\* main saved at its start.
TerminalRestored == pc = "done" => tty = old_tty

\* C2: main ended by an exception that came out of conversation mode, which
\* had left the terminal in cbreak mode
RestoredAfterException ==
    /\ pc = "done"
    /\ raised = "EOFError"
    /\ \E k \in 1..Len(routes) : routes[k].route = "conversation"
    /\ tty = old_tty
    /\ tty # setcbreak(tty)

\* C3: the chunks written to the PTY for the user are, joined in the order
\* of the writes, exactly the bytes read from the user's input.
UserBytesForwarded ==
    LET user == SelectSeq(pty_written, LAMBDA w : w[1] = "user")
    IN  Concat([k \in 1..Len(user) |-> user[k][2]]) = stdin_read

\* C3: a line that does not decode was read and written to the PTY
UndecodableLineForwarded ==
    /\ \E k \in 1..Len(pty_written) :
          pty_written[k] = <<"user", <<"E2", "LF">>>>
    /\ \E k \in 1..(Len(stdin_read) - 1) :
          stdin_read[k] = "E2" /\ stdin_read[k + 1] = "LF"

\* C4: whenever the relay waits for the next chunk, and when main has ended,
\* every byte read from the PTY, by the loop or by execute, has been written
\* to the real terminal, in the order it was read.
AllPtyOutputRelayed ==
    pc \in {"select", "done"} => stdout_written = pty_read

\* C5: when the PTY's output holds neither marker ('2;' or '1;'), the relay
\* loop is not ended by an error raised in parse_terminal_output.
SegmenterNeverFatal ==
    (\A k \in 1..(Len(pty_read) - 1) :
        ~(pty_read[k] \in {"1", "2"} /\ pty_read[k + 1] = ";"))
    => raised # "IndexError in parse_terminal_output"

\* C6: is_ai_command(c) is (True, p) exactly when c is 'ai' or begins with
\* 'ai ', p being what follows the 'ai', stripped; otherwise it is False.
ClassifierAsDocumented ==
    pc = "is_ai_command returned" =>
        IF fn_arg = <<"a", "i">> \/ StartsWith(fn_arg, <<"a", "i", " ">>)
        THEN fn_ret = <<TRUE, Strip(SubSeq(fn_arg, 3, Len(fn_arg)))>>
        ELSE fn_ret[1] = FALSE

\* C7: every pair that reaches the dispatch goes where is_ai_command says:
\* an ordinary command into the history with its input and output, and with
\* no request to the service; a meta-command with a prompt to
\* single-question mode, one without to conversation mode; and no
\* meta-command is in the history as a command record.
DispatchFollowsClassifier ==
    LET ordinary == SelectSeq(appended, LAMBDA r : "input" \in DOMAIN r)
        plain    == SelectSeq(routes, LAMBDA r : r.route = "history")
        single   == SelectSeq(routes, LAMBDA r : r.route = "single")
    IN  /\ \A k \in 1..Len(routes) :
              LET c == is_ai_command(routes[k].input)
              IN  routes[k].route =
                      IF ~c[1] THEN "history"
                      ELSE IF c[2] # <<>> THEN "single" ELSE "conversation"
        /\ Len(ordinary) = Len(plain)
        /\ \A k \in 1..Len(plain) :
              /\ ordinary[k].input = plain[k].input
              /\ ordinary[k].output = plain[k].output
              /\ ~is_ai_command(ordinary[k].input)[1]
        /\ Len(plain) = Len(routes) => requests = <<>> /\ messages = <<>>
        /\ Len(single) <= Len(requests)
        /\ \A k \in 1..Len(history) :
              "input" \in DOMAIN history[k]
                  => ~is_ai_command(history[k].input)[1]

\* C7: a meta-command with a prompt went to single-question mode, its answer
\* is in the history and the relay goes on
SingleQuestionDispatched ==
    /\ pc = "select"
    /\ \E k \in 1..Len(routes) :
          /\ routes[k].route = "single"
          /\ is_ai_command(routes[k].input) = <<TRUE, <<"h", "i">>>>
    /\ \E k \in 1..Len(history) : "user_input" \in DOMAIN history[k]
    /\ requests # <<>>

\* C8: an error of the completion service, in single-question mode or in
\* conversation mode, does not end the session.
ServiceErrorRecoverable == raised # "ServiceError"

\* C9: in conversation mode the terminal has the saved attributes; whenever
\* the relay waits in select, and when an exception of input() leaves
\* handle_ai_query, the terminal is in cbreak mode.
ConversationTerminalModes ==
    /\ pc = "conversation" => tty = old_tty
    /\ pc = "select" => tty = setcbreak(old_tty)
    /\ (pc = "finally" /\ raised = "EOFError") => tty = setcbreak(old_tty)

\* C9: the conversation was left after a service error, and the relay waits
\* in cbreak mode
RelayWaitsAfterConversation ==
    /\ pc = "select"
    /\ \E k \in 1..Len(routes) : routes[k].route = "conversation"
    /\ requests # <<>>
    /\ messages = <<>>
    /\ tty = setcbreak(old_tty)
    /\ tty # old_tty

\* C10: when execute's read loop is left by the timeout, execute returns the
\* empty pair ('', ''), whatever was read before.
ExecuteTimeoutEmptyPair ==
    (pc = "execute returned" /\ fn_ret.ended = "timeout")
        => fn_ret.returned = << <<>>, <<>> >>

\* C11: what execute returns is a pair on every path, so that building the
\* command record from the results of 'echo $?' and 'pwd' does not fail.
ExecuteReturnsPair ==
    /\ pc = "exec_pwd" => Len(last_ret_value) = 2
    /\ pc = "dispatch" => Len(pwd_res) = 2
    /\ raised # "IndexError in main"

\* C12: without the credential the program fails only when a meta-command
\* is dispatched to handle_ai_query: the ValueError of the missing credential
\* is raised only after such a dispatch.
CredentialNeededOnlyForAssistant ==
    raised = "ValueError" =>
        \E k \in 1..Len(routes) : routes[k].route \in {"single", "conversation"}

\* C13: in a run in which the shell does not start (pty.fork fails, or
\* os.execlp fails in the child) the terminal is never switched to cbreak
\* mode: it keeps the attributes it had.
SpawnFailureLeavesTerminal ==
    environ.spawn # "ok" => tty = old_tty /\ tty.icanon /\ tty.echo

\* C14: when a signal ends the process after the switch to cbreak mode, the
\* terminal has its original attributes once the process has ended.
RestoredOnSignal ==
    (pc = "killed" \/ (pc = "done" /\ raised = "KeyboardInterrupt"))
        => tty = old_tty


\* C15: every single question makes one request to the completion service;
\* it adds one record to the history, holding the prompt and the joined text
\* of all deltas, exactly when the stream completes, and a single question
\* whose request or stream fails leaves the history as it was.
SingleQuestionOneRequestOneRecord ==
    LET single  == SelectSeq(routes, LAMBDA r : r.route = "single")
        asked   == SelectSeq(requests, LAMBDA m : Len(m) = 2)
        answers == SelectSeq(appended, LAMBDA c : "ai_response" \in DOMAIN c)
        failed  == IF raised = "ServiceError" THEN 1 ELSE 0
        texts   == { <<"o", "k">> }
    IN  /\ Len(asked) = Len(single)
        /\ Len(answers) = Len(single) - failed
        /\ \A k \in 1..Len(answers) :
              /\ answers[k].user_input = is_ai_command(single[k].input)[2]
              /\ answers[k].ai_response \in texts
        /\ history = SubSeq(appended, Max(1, Len(appended) - 99),
                            Len(appended))

\* C15: a single question was answered and its record is in the history
SingleQuestionRecorded ==
    /\ \E k \in 1..Len(routes) : routes[k].route = "single"
    /\ \E k \in 1..Len(history) :
          history[k] = [user_input |-> <<"h", "i">>,
                        ai_response |-> <<"o", "k">>]
    /\ raised = "no"

\* C16: no line that the user typed and that is_ai_command classifies as a
\* meta-command is written to the PTY.
MetaCommandNotForwarded ==
    \A k \in 1..Len(pty_written) :
        pty_written[k][1] = "user" =>
            \E text \in {Decode(pty_written[k][2])} :
                ~ /\ Contains(pty_written[k][2], "LF")
                  /\ text[1]
                  /\ is_ai_command(Strip(text[2]))[1]

\* C17: the conversation is left on a line of the user only when the line is
\* exactly 'exit'; every other line is sent to the completion service.
ConversationLeftOnExactExit ==
    \A k \in 1..Len(lines) :
        lines[k].then = "exit" <=> lines[k].line = <<"e", "x", "i", "t">>

\* the decoding of b fails because its last character is incomplete: bytes
\* that follow can make b decodable
IncompleteTail(b) ==
    /\ ~Decodable(b)
    /\ \E t \in {<<"82", "AC">>, <<"AC">>} : Decodable(b \o t)

\* C18: when the decoding of the command buffer or of the output buffer fails
\* on an incomplete character, the buffer keeps all its bytes, the chunk just
\* read included, and the relay loop goes on.
DecodeFailureKeepsBytes ==
    [][ /\ \A chunk \in StdinChunks \ {<<>>} :
              ( /\ pc = "stdin"
                /\ stdin_read' = stdin_read \o chunk
                /\ Contains(chunk, "LF") \/ Contains(chunk, "CR")
                /\ IncompleteTail(command_buffer \o chunk) )
              => /\ command_buffer' = command_buffer \o chunk
                 /\ pc' \in {"select", "master_fd"}
        /\ \A chunk \in PtyChunks \ {<<>>} :
              ( /\ pc = "master_fd"
                /\ pty_read' = pty_read \o chunk
                /\ IncompleteTail(output_buffer \o chunk) )
              => /\ output_buffer' = output_buffer \o chunk
                 /\ pc' = "select" ]_vars

\* C19: for a buffer whose cleaned text has '2;' before '1;', the command
\* parse_terminal_output returns is the text between the two markers,
\* stripped, whatever characters it holds.
CommandIsTextBetweenMarkers ==
    pc = "parse_terminal_output returned" =>
        \E c \in {clean_terminal_output(fn_arg)} :
            LET start == Find(c, <<"2", ";">>)
                end   == Find(c, <<"1", ";">>)
            IN  (start >= 0 /\ start < end) =>
                    /\ fn_ret[1] = "ok"
                    /\ fn_ret[2][1] = Strip(PySlice(c, start + 2, end))

\* the number of non-empty command lines the user has submitted: the chunks
\* with a newline that complete, with the chunks read since the newline
\* before, a line that decodes to text other than whitespace (a byte that
\* is not whitespace, the bytes being decodable)
SubmittedLines ==
    Only({ Cardinality(
             { k \in 1..Len(user) :
                 /\ Contains(user[k][2], "LF") \/ Contains(user[k][2], "CR")
                 /\ \E from \in {Greatest({0} \cup
                                 {j \in 1..(k - 1) :
                                     \/ Contains(user[j][2], "LF")
                                     \/ Contains(user[j][2], "CR")}) + 1} :
                      \E line \in {Concat([i \in 1..(k - from + 1) |->
                                             user[from + i - 1][2]])} :
                          /\ Decodable(line)
                          /\ \E i \in 1..Len(line) : ~IsSpace(line[i]) })
           : user \in {SelectSeq(pty_written, LAMBDA w : w[1] = "user")} })

\* C20: the dispatches never outnumber the non-empty command lines the user
\* has submitted: one happens only while a submitted command is pending, and
\* a command that is pending or being dispatched is one more submitted line.
DispatchesBoundedBySubmissions ==
    \E submitted \in {SubmittedLines} :
        /\ Len(routes) <= submitted
        /\ pc \in {"exec_ret", "exec_pwd", "dispatch"} =>
              /\ last_command # None
              /\ Len(routes) < submitted
        /\ (pc = "select" /\ last_command # None) => Len(routes) < submitted

\* C20: after the dispatch of the one submitted command a prompt arrived from
\* the PTY and was relayed with no further dispatch
PromptAfterDispatchIgnored ==
    /\ Len(routes) = 1
    /\ SubmittedLines = 1
    /\ pc = "select"
    /\ last_command = None
    /\ Contains(output_buffer, "%")
=============================================================================
